---- MODULE Spec2Model ----
(***************************************************************************)
(* Bridge controller of the Recaptcha component (the forwardRef component  *)
(* with its open/close handle, its WebView message handler and its timeout *)
(* timer).  Each JavaScript handler runs to completion, so each handler is *)
(* one action; a handler is a function from the component's state to the   *)
(* component's state, composed the way the code calls it.                  *)
(***************************************************************************)
EXTENDS Integers, Sequences, FiniteSets, TLC

(* ------------------------------ bounds -------------------------------- *)
MaxOpens == 2
MaxMessages == 2
MaxCloses == 1
MaxValueLen == 1
MaxRenders == 1

(* ------------------------- program constants -------------------------- *)
OpacityHidden == 0
OpacityShown == 1
ZIndexHidden == -1000
ZIndexShown == 100000

(* JavaScript undefined: the value of a property the payload lacks.        *)
Undefined == "undefined"

(* The strings the sandbox posts (content.nativeEvent.data).               *)
Messages ==
    { "not json",
      "{\"verify\":\"tok-123\"}",
      "{\"verify\":\"\"}",
      "{\"expired\":\"expired\"}",
      "{\"onReady\":true}",
      "{\"error\":\"timeout\"}",
      "{\"verify\":\"tok-123\",\"error\":\"net\"}" }

(* Messages whose one key carries a falsy value.                           *)
FalsyMessages ==
    { "{\"verify\":null}",
      "{\"expired\":0}",
      "{\"error\":false}",
      "{\"error\":\"\"}" }

(* JSON.parse on those strings.  A property value is kept as its JSON      *)
(* text; throws marks a SyntaxError.                                       *)
Payload(v, x, e, r) ==
    [throws |-> FALSE, verify |-> v, expired |-> x, error |-> e, onReady |-> r]

JSONparse(data) ==
    CASE data = "not json" ->
           [throws |-> TRUE, verify |-> Undefined, expired |-> Undefined,
            error |-> Undefined, onReady |-> Undefined]
      [] data = "{\"verify\":\"tok-123\"}" ->
           Payload("\"tok-123\"", Undefined, Undefined, Undefined)
      [] data = "{\"verify\":\"\"}" ->
           Payload("\"\"", Undefined, Undefined, Undefined)
      [] data = "{\"expired\":\"expired\"}" ->
           Payload(Undefined, "\"expired\"", Undefined, Undefined)
      [] data = "{\"error\":\"timeout\"}" ->
           Payload(Undefined, Undefined, "\"timeout\"", Undefined)
      [] data = "{\"onReady\":true}" ->
           Payload(Undefined, Undefined, Undefined, "true")
      [] data = "{\"verify\":\"tok-123\",\"error\":\"net\"}" ->
           Payload("\"tok-123\"", Undefined, "\"net\"", Undefined)
      [] data = "{\"verify\":null}" ->
           Payload("null", Undefined, Undefined, Undefined)
      [] data = "{\"expired\":0}" ->
           Payload(Undefined, "0", Undefined, Undefined)
      [] data = "{\"error\":false}" ->
           Payload(Undefined, Undefined, "false", Undefined)
      [] data = "{\"error\":\"\"}" ->
           Payload(Undefined, Undefined, "\"\"", Undefined)

(* JavaScript truthiness of a property value, as tested by if(payload.k).  *)
Truthy(v) == v \notin {Undefined, "\"\"", "false", "0", "null"}

(* The callback props the host supplies; cb && cb(...) calls only these.   *)
HostCallbacks == {"onVerify", "onExpire", "onError", "onClose"}

TerminalCallbacks == {"onVerify", "onExpire", "onError"}

(* The first render, whose closures handleMessage keeps (useCallback with  *)
(* an empty dependency list).                                              *)
FirstRender == 1

(* ----------------------- bridge document builder ---------------------- *)
(* A document is the sequence of the pieces of the template literal of     *)
(* getTemplate: its fixed text in chunks, a double quote as a piece of its *)
(* own wherever an interpolated attribute value is delimited, and an       *)
(* interpolated string character by character.                             *)
DQ == "\""

Chars == {"a", DQ, "'", "<", ">"}

Strings(n) == UNION {[1..k -> Chars] : k \in 1..n}

SiteKeys == Strings(MaxValueLen)

(* lang is optional; an absent lang interpolates as the text undefined.    *)
Langs == {<<"undefined">>} \cup Strings(1)

Sizes == {"invisible", "normal", "compact"}

Themes == {"dark", "light"}

Configs ==
    [siteKey : SiteKeys, size : Sizes, theme : Themes, lang : Langs,
     hideBadge : BOOLEAN, debug : BOOLEAN, enterprise : BOOLEAN]

(* The script tag always loading the standard endpoint.                    *)
scriptTagIgnoresEnterprise(enterprise) ==
    << "<script src=", DQ, "https://www.google.com/recaptcha/",
       "api", ".js", DQ, " async defer></script>" >>

scriptTag(enterprise) ==
    << "<script src=", DQ, "https://www.google.com/recaptcha/",
       IF enterprise THEN "enterprise" ELSE "api",
       ".js", DQ, " async defer></script>" >>

getTemplate(params, enterprise) ==
    << "<!DOCTYPE html>", "<html lang=", DQ >> \o params.lang \o
    << DQ, ">", "<head><meta><meta><title></title><link><link>" >> \o
    scriptTag(enterprise) \o
    << "<script>rerenderRecaptcha onSubmit onError onExpired</script>",
       "<style>html,body,.container{}",
       IF params.hideBadge THEN ".grecaptcha-badge{display:none}" ELSE "",
       "</style></head>",
       "<body><div class=\"container\">",
       "<div id=\"recaptcha\" class=\"g-recaptcha\"",
       " data-sitekey=", DQ >> \o params.siteKey \o
    << DQ, " data-callback=\"onSubmit\"",
       " data-size=", DQ, params.size, DQ,
       " data-error-callback=\"onError\"",
       " data-expired-callback=\"onExpired\"", ">",
       IF params.debug
       THEN "<div onclick=\"rerenderRecaptcha()\"> Recarregar Captcha </div>"
       ELSE "",
       "</div></div></body></html>" >>

(* The object literal handed to getTemplate by the component.              *)
TemplateParams(p) ==
    [hideBadge |-> p.hideBadge, siteKey |-> p.siteKey, size |-> p.size,
     theme |-> p.theme, lang |-> p.lang, debug |-> p.debug]

(* The dependency list of the useMemo that holds the document.             *)
htmlDeps(p) ==
    <<p.hideBadge, p.siteKey, p.size, p.theme, p.lang, p.enterprise>>

(* useMemo: the factory runs again only when a dependency changed.         *)
useMemoHtml(prev, html0, p) ==
    IF htmlDeps(p) # htmlDeps(prev)
    THEN getTemplate(TemplateParams(p), p.enterprise)
    ELSE html0

(* Recaptcha.defaultProps, with some site key.                             *)
DefaultProps ==
    [siteKey |-> <<"a">>, size |-> "invisible", theme |-> "light",
     lang |-> <<"undefined">>, hideBadge |-> FALSE, debug |-> FALSE,
     enterprise |-> FALSE]

(* How a browser reads the document: the pieces that open a double-quoted  *)
(* attribute value, which then runs up to the next double quote.           *)
AttrOpeners == {"<html lang=", "<script src=", " data-sitekey=", " data-size=",
                " data-theme="}

RECURSIVE Scan(_, _, _, _)
Scan(doc, i, inValue, acc) ==
    IF i > Len(doc) THEN acc
    ELSE IF inValue
         THEN IF doc[i] = DQ
              THEN Scan(doc, i + 1, FALSE, Append(acc, DQ))
              ELSE Scan(doc, i + 1, TRUE, acc)
         ELSE IF doc[i] = DQ /\ i > 1 /\ doc[i - 1] \in AttrOpeners
              THEN Scan(doc, i + 1, TRUE, Append(acc, DQ))
              ELSE Scan(doc, i + 1, FALSE, Append(acc, doc[i]))

(* The markup structure: the document with every attribute value as read  *)
(* by the browser left out.                                                *)
Skeleton(doc) == Scan(doc, 1, FALSE, <<>>)

RECURSIVE ValueFrom(_, _)
ValueFrom(doc, i) ==
    IF i > Len(doc) \/ doc[i] = DQ THEN <<>>
    ELSE <<doc[i]>> \o ValueFrom(doc, i + 1)

(* The attribute values the document declares after the piece opener.     *)
Declared(doc, opener) ==
    {ValueFrom(doc, i + 2) : i \in {j \in 1..(Len(doc) - 1) :
                                       doc[j] = opener /\ doc[j + 1] = DQ}}

(* ------------------------------- state -------------------------------- *)
VARIABLES
    timers,             \* the runtime's timers, by handle: armed/fired/cancelled
    timeout,            \* timeout.current: a handle, 0 for null
    containerOpacity,   \* containerOpacity.value
    containerZIndex,    \* containerZIndex.value
    loading,            \* the loading state
    captchaLoaded,      \* captchaLoaded.current
    mounted,            \* the component is mounted, $webView.current is set
    callbacks,          \* which render's callback props are the current ones
    gens,               \* per timer: the render whose onError its callback holds
    props,              \* the configuration props of the latest render
    html,               \* the memoized document handed to the WebView
    log,                \* everything observable, in the order it happened
    before              \* the state the last handler started from

vars == <<timers, timeout, containerOpacity, containerZIndex, loading,
          captchaLoaded, mounted, callbacks, gens, props, html, log, before>>

E(kind, name, arg) == [kind |-> kind, name |-> name, arg |-> arg]

(* The component's state as a handler sees it.  scope is the render whose  *)
(* props the running closure holds; retries is how many times the host     *)
(* will call open() from inside a terminal callback during this handler.   *)
St ==
    [timers |-> timers, timeout |-> timeout,
     containerOpacity |-> containerOpacity,
     containerZIndex |-> containerZIndex,
     loading |-> loading, captchaLoaded |-> captchaLoaded,
     mounted |-> mounted, callbacks |-> callbacks, gens |-> gens,
     log |-> log, scope |-> callbacks, retries |-> 0]

(* The state seen by a closure of render g, under a host that retries r    *)
(* times.                                                                  *)
In(s, g, r) == [s EXCEPT !.scope = g, !.retries = r]

Emit(s, e) == [s EXCEPT !.log = Append(@, e)]

(* $webView.current?.injectJavaScript(...): the ref is null once the        *)
(* WebView is unmounted.                                                   *)
injectJavaScript(s, instruction) ==
    IF s.mounted THEN Emit(s, E("inject", instruction, "")) ELSE s

(* setTimeout: a new armed timer, whose handle is returned into the ref;   *)
(* its callback closes over the props of the render that runs handleOpen.  *)
setTimeout(s) ==
    LET h == Len(s.timers) + 1
    IN  Emit([s EXCEPT !.timers = Append(@, "armed"), !.timeout = h,
                       !.gens = Append(@, s.scope)],
             E("timer", "set", ToString(h)))

(* clearTimeout(h): disarms h if it is still armed, else does nothing.     *)
clearTimeout(s, h) ==
    LET s1 == Emit(s, E("timer", "clear", ToString(h)))
    IN  IF h \in DOMAIN s.timers /\ s.timers[h] = "armed"
        THEN [s1 EXCEPT !.timers[h] = "cancelled"]
        ELSE s1

(* hide that leaves the overlay stacked above the application.             *)
hideOpacityOnly(s) ==
    Emit([s EXCEPT !.containerOpacity = OpacityHidden],
         E("signal", "hide", ""))

hide(s) ==
    Emit([s EXCEPT !.containerOpacity = OpacityHidden,
                   !.containerZIndex = ZIndexHidden],
         E("signal", "hide", ""))

show(s) ==
    Emit([s EXCEPT !.containerOpacity = OpacityShown,
                   !.containerZIndex = ZIndexShown],
         E("signal", "show", ""))

setLoading(s, b) == [s EXCEPT !.loading = b]

(* ------------------------------ handlers ------------------------------ *)
(* handleOpen that never shows the overlay.                                *)
handleOpenNoShow(s) ==
    setLoading(
        injectJavaScript(setTimeout(injectJavaScript(s, "reset")), "execute"),
        TRUE)

handleOpen(s) ==
    setLoading(
        injectJavaScript(show(setTimeout(injectJavaScript(s, "reset"))),
                         "execute"),
        TRUE)

(* cb && cb(arg): the callback is the one of the closure's render.  A host *)
(* that retries calls open() on the handle before the callback returns.    *)
Invoke(s, cb, arg) ==
    IF cb \in HostCallbacks
    THEN LET s1 == Emit(Emit(s, E("closure", cb, ToString(s.scope))),
                        E("cb", cb, arg))
         IN  IF s.retries > 0 /\ cb \in TerminalCallbacks /\ s.mounted
             THEN In(handleOpen(In(Emit(s1, E("event", "open", "retry")),
                                   s.callbacks, 0)),
                     s.scope, s.retries - 1)
             ELSE s1
    ELSE s

(* handleClose without the onClose notification.                           *)
handleCloseSilent(s) == injectJavaScript(hide(s), "reset")

(* handleClose issuing the reset instruction twice.                        *)
handleCloseResetsTwice(s) ==
    Invoke(injectJavaScript(injectJavaScript(hide(s), "reset"), "reset"),
           "onClose", "")

handleClose(s) ==
    Invoke(injectJavaScript(hide(s), "reset"), "onClose", "")

(* The timeout callback leaving the overlay shown.                         *)
timeoutCallbackKeepsVisible(s) ==
    setLoading(
        injectJavaScript(Invoke(s, "onError", "\"timeout\""), "reset"),
        FALSE)

(* The function handed to setTimeout by handleOpen.                        *)
timeoutCallback(s) ==
    setLoading(
        injectJavaScript(hide(Invoke(s, "onError", "\"timeout\"")), "reset"),
        FALSE)

(* The body of the try block of handleMessage, after JSON.parse.           *)
(* dispatch on the presence of a key instead of on its value.              *)
dispatchByPresence(s, payload) ==
    LET s1 == IF payload.verify # Undefined
              THEN Invoke(handleClose(s), "onVerify", payload.verify)
              ELSE s
        s2 == IF payload.expired # Undefined
              THEN Invoke(handleClose(s1), "onExpire", "")
              ELSE s1
        s3 == IF payload.error # Undefined
              THEN Invoke(handleClose(s2), "onError", payload.error)
              ELSE s2
    IN  IF Truthy(payload.onReady)
        THEN [s3 EXCEPT !.captchaLoaded = TRUE]
        ELSE s3

dispatch(s, payload) ==
    LET s1 == IF Truthy(payload.verify)
              THEN Invoke(handleClose(s), "onVerify", payload.verify)
              ELSE s
        s2 == IF Truthy(payload.expired)
              THEN Invoke(handleClose(s1), "onExpire", "")
              ELSE s1
        s3 == IF Truthy(payload.error)
              THEN Invoke(handleClose(s2), "onError", payload.error)
              ELSE s2
    IN  IF Truthy(payload.onReady)
        THEN [s3 EXCEPT !.captchaLoaded = TRUE]
        ELSE s3

(* handleMessage handing a parse failure to the host as an error.          *)
handleMessageReportsParseError(s, data) ==
    LET s0 == IF s.timeout # 0 THEN clearTimeout(s, s.timeout) ELSE s
        payload == JSONparse(data)
    IN  IF payload.throws
        THEN Invoke(handleClose(s0), "onError", "\"SyntaxError\"")
        ELSE dispatch(s0, payload)

handleMessage(s, data) ==
    LET s0 == IF s.timeout # 0 THEN clearTimeout(s, s.timeout) ELSE s
        payload == JSONparse(data)
    IN  IF payload.throws
        THEN Emit(s0, E("console", "warn", ""))
        ELSE dispatch(s0, payload)

stopLoading(s) == setLoading(s, FALSE)

(* The cleanup of the mount effect, run when the component unmounts.       *)
unmountCleanup(s) == [s EXCEPT !.captchaLoaded = FALSE, !.mounted = FALSE]

(* ------------------------------ actions ------------------------------- *)
Visible == containerOpacity = OpacityShown

Armed == {h \in DOMAIN timers : timers[h] = "armed"}

CountEvents(name) ==
    Cardinality({i \in DOMAIN log : log[i].kind = "event" /\ log[i].name = name})

Become(s) ==
    /\ timers' = s.timers
    /\ timeout' = s.timeout
    /\ containerOpacity' = s.containerOpacity
    /\ containerZIndex' = s.containerZIndex
    /\ loading' = s.loading
    /\ captchaLoaded' = s.captchaLoaded
    /\ mounted' = s.mounted
    /\ callbacks' = s.callbacks
    /\ gens' = s.gens
    /\ log' = s.log
    /\ UNCHANGED <<props, html>>

Snapshot ==
    before' = [visible |-> Visible, timers |-> timers, at |-> Len(log)]

(* The first render with configuration p.                                 *)
Mount(p) ==
    /\ timers = <<>>
    /\ timeout = 0
    /\ containerOpacity = OpacityHidden
    /\ containerZIndex = ZIndexHidden
    /\ loading = TRUE
    /\ captchaLoaded = FALSE
    /\ mounted = TRUE
    /\ callbacks = FirstRender
    /\ gens = <<>>
    /\ props = p
    /\ html = getTemplate(TemplateParams(p), p.enterprise)
    /\ log = <<>>
    /\ before = [visible |-> FALSE, timers |-> <<>>, at |-> 0]

Init == Mount(DefaultProps)

Open ==
    /\ mounted
    /\ Len(timers) < MaxOpens
    /\ \E n \in {handleOpen(Emit(St, E("event", "open", "")))} : Become(n)
    /\ Snapshot

Close ==
    /\ mounted
    /\ CountEvents("close") < MaxCloses
    /\ \E n \in {handleClose(Emit(St, E("event", "close", "")))} : Become(n)
    /\ Snapshot

(* The WebView delivers messages only while it is mounted; onMessage is    *)
(* the handleMessage of the first render.  r is the host's retries.        *)
IngestUnder(data, r) ==
    /\ mounted
    /\ CountEvents("message") < MaxMessages
    /\ \E n \in {handleMessage(
                    In(Emit(St, E("event", "message", data)), FirstRender, r),
                    data)} : Become(n)
    /\ Snapshot

Ingest(data) == IngestUnder(data, 0)

Message == \E data \in Messages : Ingest(data)

(* The runtime runs the callback of an armed timer; the delay is a prop    *)
(* read at each open, so timers need not fire in the order they were set.  *)
FireUnder(h, r) ==
    /\ h \in Armed
    /\ \E n \in {timeoutCallback(
                    In(Emit([St EXCEPT !.timers[h] = "fired"],
                            E("event", "timer", ToString(h))),
                       gens[h], r))} : Become(n)
    /\ Snapshot

Fire(h) == FireUnder(h, 0)

TimerFires == \E h \in DOMAIN timers : Fire(h)

(* onLoadEnd of the WebView.                                               *)
LoadEnd ==
    /\ mounted
    /\ loading
    /\ \E n \in {stopLoading(St)} : Become(n)
    /\ UNCHANGED before

(* The host removes the component; the handle and the WebView go away, the *)
(* timers of the runtime do not.                                           *)
Unmount ==
    /\ mounted
    /\ \E n \in {unmountCleanup(Emit(St, E("event", "unmount", "")))} : Become(n)
    /\ Snapshot

Next == Open \/ Close \/ Message \/ TimerFires \/ LoadEnd \/ Unmount

Spec == Init /\ [][Next]_vars

(* An armed timer fires when its delay has elapsed.                        *)
FairSpec == Spec /\ \A h \in 1..MaxOpens : WF_vars(Fire(h))

(* A host that, inside a terminal callback, may call open() on the handle  *)
(* again: at most once per handler, and within the bound on open() calls.  *)
Retries == IF Len(timers) < MaxOpens THEN {0, 1} ELSE {0}

RetryMessage == \E data \in Messages : \E r \in Retries : IngestUnder(data, r)

RetryTimerFires == \E h \in Armed : \E r \in Retries : FireUnder(h, r)

RetryNext ==
    Open \/ Close \/ RetryMessage \/ RetryTimerFires \/ LoadEnd \/ Unmount

RetrySpec == Init /\ [][RetryNext]_vars

(* The host renders the component again with new callback props; memo()    *)
(* lets the render through because the props differ.                       *)
RenderCallbacks ==
    /\ mounted
    /\ callbacks < FirstRender + MaxRenders
    /\ \E n \in {Emit([St EXCEPT !.callbacks = @ + 1],
                       E("event", "render", ""))} : Become(n)
    /\ Snapshot

RenderNext ==
    \/ Open \/ Close \/ Message \/ TimerFires \/ LoadEnd \/ Unmount
    \/ RenderCallbacks

RenderSpec == Init /\ [][RenderNext]_vars

(* The host renders the component again with one configuration prop       *)
(* changed (any change of several props is a sequence of these as far as   *)
(* the document is concerned: it is rebuilt when a dependency changed).    *)
Rerender(p) ==
    /\ mounted
    /\ p # props
    /\ props' = p
    /\ html' = useMemoHtml(props, html, p)
    /\ UNCHANGED <<timers, timeout, containerOpacity, containerZIndex,
                   loading, captchaLoaded, mounted, callbacks, gens, log,
                   before>>

ChangeSiteKey == \E v \in SiteKeys : Rerender([props EXCEPT !.siteKey = v])

ChangeLang == \E v \in Langs : Rerender([props EXCEPT !.lang = v])

ChangeSize == \E v \in Sizes : Rerender([props EXCEPT !.size = v])

ChangeTheme == \E v \in Themes : Rerender([props EXCEPT !.theme = v])

ChangeFlag ==
    \E f \in {"hideBadge", "debug", "enterprise"} :
        Rerender([props EXCEPT ![f] = ~@])

BuilderInit == \E p \in Configs : Mount(p)

BuilderNext ==
    ChangeSiteKey \/ ChangeLang \/ ChangeSize \/ ChangeTheme \/ ChangeFlag

(* The component under re-renders with changing configuration.             *)
BuilderSpec == BuilderInit /\ [][BuilderNext]_vars

(* ------------------------ reading the log ----------------------------- *)
IsCb(e, name) == e.kind = "cb" /\ e.name = name

IsEvent(e, name) == e.kind = "event" /\ e.name = name

IsTimeoutError(e) == IsCb(e, "onError") /\ e.arg = "\"timeout\""

IsTerminalCb(e) == e.kind = "cb" /\ e.name \in TerminalCallbacks

Only(seq, kind) == SelectSeq(seq, LAMBDA e : e.kind = kind)

(* What the last handler did, its event first.                             *)
LastRun == SubSeq(log, before.at + 1, Len(log))

Ran(name) == Len(LastRun) > 0 /\ IsEvent(LastRun[1], name)

Opens == {i \in DOMAIN log : IsEvent(log[i], "open")}

(* The log indices of the handler run that starts with the event at i.     *)
RunOf(i) ==
    {j \in DOMAIN log :
        j >= i /\ \A k \in DOMAIN log : (i < k /\ k <= j) => log[k].kind # "event"}

(* The entry at k is the onError('timeout') of a timer that fired.         *)
TimedOutAt(k) ==
    /\ IsTimeoutError(log[k])
    /\ \E i \in 1..k : IsEvent(log[i], "timer") /\ k \in RunOf(i)

(* The open() cycle that starts at log index i: up to the next open().     *)
CycleOf(i) ==
    {j \in DOMAIN log : j >= i /\ \A k \in Opens : k > i => j < k}

(* A message that carries the key verify, expired or error.                *)
IsTerminalMessage(data) ==
    LET p == JSONparse(data)
    IN  /\ ~p.throws
        /\ \/ p.verify # Undefined
           \/ p.expired # Undefined
           \/ p.error # Undefined

(* A message {verify: t} with a non-empty token and no other key.          *)
IsVerifyOnly(data) ==
    LET p == JSONparse(data)
    IN  /\ ~p.throws
        /\ Truthy(p.verify)
        /\ p.expired = Undefined
        /\ p.error = Undefined
        /\ p.onReady = Undefined

(* Every message ingested so far carries at most one of the four keys.     *)
SingleKeyMessagesOnly ==
    \A i \in DOMAIN log :
        IsEvent(log[i], "message") =>
            LET p == JSONparse(log[i].arg)
            IN  Cardinality({k \in {"verify", "expired", "error", "onReady"} :
                                p[k] # Undefined}) <= 1

(* The timeout of the latest open() had not fired when the last handler    *)
(* started.                                                                *)
OpenedNotTimedOut ==
    /\ Len(before.timers) > 0
    /\ before.timers[Len(before.timers)] # "fired"

(* ------------------------------ claims -------------------------------- *)

(* C1: in every reachable state at most one timeout is armed (neither      *)
(* fired nor cancelled).                                                   *)
C1_AtMostOneArmedTimeout == Cardinality(Armed) <= 1

(* C2: when open() is called twice in succession and no terminal message   *)
(* ever arrives, onError('timeout') is delivered at most once for the pair *)
(* of calls.                                                               *)
C2_OneTimeoutPerPairOfOpens ==
    LET events == Only(log, "event")
        twice == /\ Len(timers) = 2
                 /\ \E i \in 1..(Len(events) - 1) :
                        /\ IsEvent(events[i], "open")
                        /\ IsEvent(events[i + 1], "open")
        quiet == \A i \in DOMAIN events :
                    IsEvent(events[i], "message")
                        => ~IsTerminalMessage(events[i].arg)
    IN  (twice /\ quiet)
            => Cardinality({i \in DOMAIN log : TimedOutAt(i)}) <= 1

(* C3: within one open() cycle at most one of onVerify, onExpire, onError  *)
(* is invoked, and at most once, whatever the order of timer and messages  *)
(* (stated here for runs whose messages carry one key each).               *)
C3_OneTerminalCallbackPerCycle ==
    SingleKeyMessagesOnly =>
        \A i \in Opens :
            Cardinality({j \in CycleOf(i) : IsTerminalCb(log[j])}) <= 1

(* C4: within one open() cycle onError is never invoked after onVerify,    *)
(* neither by a timer nor by a later message (stated here for runs whose   *)
(* messages carry one key each).                                           *)
C4_NoErrorAfterVerify ==
    SingleKeyMessagesOnly =>
        \A i \in Opens : \A j, k \in CycleOf(i) :
            (IsCb(log[j], "onVerify") /\ k > j) => ~IsCb(log[k], "onError")

(* C5 as claimed: a {verify: t} message ingested after open() and before   *)
(* the timeout fires invokes onVerify exactly once with t, hides the       *)
(* overlay and does not invoke onClose.                                    *)
C5_VerifyWithoutOnClose ==
    (Ran("message") /\ IsVerifyOnly(LastRun[1].arg) /\ OpenedNotTimedOut)
        => /\ SelectSeq(LastRun, LAMBDA e : IsCb(e, "onVerify"))
                = <<E("cb", "onVerify", JSONparse(LastRun[1].arg).verify)>>
           /\ ~Visible
           /\ \A i \in DOMAIN LastRun : ~IsCb(LastRun[i], "onClose")

(* C5 as amended: a {verify: t} message ingested after open() and before   *)
(* the timeout fires invokes onClose exactly once and then onVerify        *)
(* exactly once with t, and hides the overlay.                             *)
C5_VerifyClosesThenVerifies ==
    (Ran("message") /\ IsVerifyOnly(LastRun[1].arg) /\ OpenedNotTimedOut)
        => /\ Only(LastRun, "cb")
                = <<E("cb", "onClose", ""),
                    E("cb", "onVerify", JSONparse(LastRun[1].arg).verify)>>
           /\ ~Visible

C5_Witness ==
    /\ Ran("message")
    /\ IsVerifyOnly(LastRun[1].arg)
    /\ OpenedNotTimedOut
    /\ before.visible

(* C6: a timeout armed by open() fires unless a message is ingested first, *)
(* and its firing invokes onError exactly once, with 'timeout', invokes no *)
(* other terminal callback and leaves the overlay hidden.                  *)
C6_TimeoutDeliversOneError ==
    /\ [](Ran("timer")
            => /\ SelectSeq(LastRun, IsTerminalCb)
                    = <<E("cb", "onError", "\"timeout\"")>>
               /\ ~Visible)
    /\ \A h \in 1..MaxOpens :
          (h \in Armed)
              ~> (h \in DOMAIN timers /\ timers[h] \in {"fired", "cancelled"})

C6_Witness ==
    /\ Ran("timer")
    /\ before.visible
    /\ \A i \in DOMAIN log : ~IsEvent(log[i], "message")

(* C7: every open() is eventually followed by visible = false, given that  *)
(* an armed timer eventually fires.                                        *)
C7_EveryOpenEventuallyHidden == Visible ~> ~Visible

(* C8: after close() no onError('timeout') is delivered unless open() is   *)
(* called again.                                                           *)
C8_NoTimeoutAfterClose ==
    \A c, k \in DOMAIN log :
        (IsEvent(log[c], "close") /\ k > c /\ TimedOutAt(k))
            => \E o \in Opens : c < o /\ o < k

(* C9: close() while Verifying invokes onClose exactly once and no other   *)
(* callback, issues exactly one reset instruction, and hides the overlay.  *)
C9_CloseWhileVerifying ==
    (Ran("close") /\ before.visible)
        => /\ Only(LastRun, "cb") = <<E("cb", "onClose", "")>>
           /\ Only(LastRun, "inject") = <<E("inject", "reset", "")>>
           /\ ~Visible

C9_Witness == Ran("close") /\ before.visible /\ ~Visible

HandleAt(i) == Cardinality({o \in Opens : o < i})

(* What state t added to the log of state s, restricted to some kinds.     *)
Added(s, t, kinds) ==
    SelectSeq(SubSeq(t.log, Len(s.log) + 1, Len(t.log)),
              LAMBDA e : e.kind \in kinds)

Outcome(t) ==
    [containerOpacity |-> t.containerOpacity,
     containerZIndex |-> t.containerZIndex,
     armed |-> {h \in DOMAIN t.timers : t.timers[h] = "armed"}]

(* C11: a {expired: 'expired'} message ingested after open() and before    *)
(* the timeout fires invokes onExpire exactly once, and no                 *)
(* onError('timeout') is delivered later in that open() cycle.             *)
C11_ExpiredCancelsTimeout ==
    LET opens == Opens
    IN  \A i \in DOMAIN log :
          ( /\ IsEvent(log[i], "message")
            /\ log[i].arg = "{\"expired\":\"expired\"}"
            /\ HandleAt(i) > 0
            /\ \A k \in 1..i :
                  ~(IsEvent(log[k], "timer")
                      /\ log[k].arg = ToString(HandleAt(i))) )
          => /\ Cardinality({j \in RunOf(i) : IsCb(log[j], "onExpire")}) = 1
             /\ \A k \in DOMAIN log :
                   (k > i /\ TimedOutAt(k))
                       => \E o \in opens : i < o /\ o < k

(* C12: a string that is not valid JSON invokes no host callback and is    *)
(* caught (logged, nothing else), and a well-formed terminal message       *)
(* ingested after it has the effects it has without the malformed one.     *)
C12_MalformedIsSwallowed ==
    /\ (Ran("message") /\ JSONparse(LastRun[1].arg).throws)
          => /\ Only(LastRun, "cb") = <<>>
             /\ LastRun[Len(LastRun)] = E("console", "warn", "")
             /\ \A i \in DOMAIN LastRun :
                   LastRun[i].kind \in {"event", "timer", "console"}
             /\ Visible = before.visible
    /\ mounted =>
          \A m \in {d \in Messages : IsTerminalMessage(d)} :
              LET direct == handleMessage(St, m)
                  after == handleMessage(handleMessage(St, "not json"), m)
                  seen == {"cb", "inject", "signal", "console"}
              IN  /\ Added(St, direct, seen)
                        = Tail(Added(St, after, seen))
                  /\ [direct EXCEPT !.log = <<>>] = [after EXCEPT !.log = <<>>]

C12_Witness ==
    /\ Ran("message")
    /\ IsTerminalMessage(LastRun[1].arg)
    /\ Only(LastRun, "cb") # <<>>
    /\ \E i \in 1..before.at :
          /\ IsEvent(log[i], "message")
          /\ JSONparse(log[i].arg).throws
          /\ \A j \in RunOf(i) : ~IsCb(log[j], "onError")
          /\ before.at \in RunOf(i)

(* C13: an {onReady: true} message sets loaded and changes nothing else:   *)
(* visible and the pending timeout stay as they were, no callback runs.    *)
C13_OnReadyOnlySetsLoaded ==
    (Ran("message") /\ LastRun[1].arg = "{\"onReady\":true}")
        => /\ captchaLoaded
           /\ Visible = before.visible
           /\ timers = before.timers
           /\ Only(LastRun, "cb") = <<>>

(* C14: in a state with an armed timer, the timer firing and the message   *)
(* {error: 'timeout'} invoke the same callbacks in the same order, issue   *)
(* the same instructions and leave visible and the timeouts the same.      *)
C14_TimeoutLikeErrorMessage ==
    mounted =>
        \A h \in Armed :
            LET fired == timeoutCallback([St EXCEPT !.timers[h] = "fired"])
                told == handleMessage(St, "{\"error\":\"timeout\"}")
            IN  /\ Added(St, fired, {"cb"}) = Added(St, told, {"cb"})
                /\ Added(St, fired, {"inject"}) = Added(St, told, {"inject"})
                /\ h = timeout => Outcome(fired) = Outcome(told)

(* C15: open() cancels every pending timeout, then issues reset, arms a    *)
(* new timeout, shows the overlay and issues execute, in that order, with  *)
(* one reset and one execute.                                              *)
C15_OpenSideEffectsInOrder ==
    Ran("open")
        => LET pending == {h \in DOMAIN before.timers :
                               before.timers[h] = "armed"}
               steps == SelectSeq(LastRun, LAMBDA e :
                           /\ e.kind \in {"timer", "inject", "signal"}
                           /\ ~(e.kind = "timer" /\ e.name = "clear"))
           IN  /\ \A h \in pending : timers[h] = "cancelled"
               /\ pending # {} =>
                     (LastRun[2].kind = "timer" /\ LastRun[2].name = "clear")
               /\ steps = << E("inject", "reset", ""),
                             E("timer", "set", ToString(Len(timers))),
                             E("signal", "show", ""),
                             E("inject", "execute", "") >>

(* C16: after unmount (which cancels the pending timeout) no host callback *)
(* is invoked, neither by a timer armed earlier nor by a late message.     *)
C16_NoCallbackAfterUnmount ==
    \A u, k \in DOMAIN log :
        (IsEvent(log[u], "unmount") /\ k > u) => log[k].kind # "cb"

(* C17: after any sequence of configuration changes the document handed    *)
(* to the sandbox is the one built from the current configuration.         *)
C17_DocumentFollowsConfiguration ==
    html = getTemplate(TemplateParams(props), props.enterprise)

(* C18: the generated document declares the configured site key, size and  *)
(* theme on the widget mount point, and a configuration that differs only  *)
(* in theme gives a different document.                                    *)
C18_MountPointDeclaresKeySizeTheme ==
    LET doc == getTemplate(TemplateParams(props), props.enterprise)
    IN  /\ Declared(doc, " data-sitekey=") = {props.siteKey}
        /\ Declared(doc, " data-size=") = {<<props.size>>}
        /\ Declared(doc, " data-theme=") = {<<props.theme>>}
        /\ \A t \in Themes \ {props.theme} :
              getTemplate(TemplateParams([props EXCEPT !.theme = t]),
                          props.enterprise) # doc

(* C19: the documents built with and without the enterprise flag differ    *)
(* in exactly one piece, the endpoint segment of the script source URL,    *)
(* which is enterprise in the one and api in the other.                    *)
C19_EnterpriseChangesOnlyEndpoint ==
    LET ent == getTemplate(TemplateParams(props), TRUE)
        std == getTemplate(TemplateParams(props), FALSE)
        diff == {i \in DOMAIN ent : ent[i] # std[i]}
    IN  /\ Len(ent) = Len(std)
        /\ Cardinality(diff) = 1
        /\ \A i \in diff :
              /\ ent[i] = "enterprise"
              /\ std[i] = "api"
              /\ i > 2
              /\ ent[i - 1] = "https://www.google.com/recaptcha/"
              /\ ent[i - 3] = "<script src="

C19_Witness ==
    /\ props.enterprise
    /\ html = getTemplate(TemplateParams(props), TRUE)
    /\ \E i \in DOMAIN html : html[i] = "enterprise"
    /\ props.siteKey # DefaultProps.siteKey

(* C20: whatever siteKey and lang contain (a double quote, a single quote, *)
(* < or >), the document has the markup structure of the document built    *)
(* from benign values.                                                     *)
C20_ValuesCannotBreakOut ==
    Skeleton(getTemplate(TemplateParams(props), props.enterprise))
        = Skeleton(getTemplate(
              TemplateParams([props EXCEPT !.siteKey = <<"a">>,
                                           !.lang = <<"a">>]),
              props.enterprise))

(* The terminal keys of a message and the callback each one selects.       *)
TerminalKeys == {"verify", "expired", "error"}

CallbackOf(k) ==
    CASE k = "verify" -> "onVerify"
      [] k = "expired" -> "onExpire"
      [] k = "error" -> "onError"

(* The timer held in timeout.current is not armed.                         *)
CurrentTimeoutCleared == timeout # 0 => timers[timeout] # "armed"

C23_OneTerminalCallbackPerMessage ==
    Ran("message") => Len(SelectSeq(LastRun, IsTerminalCb)) <= 1

(* C24: a message that cannot be parsed, ingested while the overlay is     *)
(* shown, leaves the overlay shown and the pending timeout armed.          *)
C24_MalformedLeavesTimeoutArmed ==
    (Ran("message") /\ JSONparse(LastRun[1].arg).throws /\ before.visible)
        => (Visible /\ timers = before.timers)

(* C25: a terminal message ingested while the overlay is hidden (before    *)
(* any open(), after close(), after the timeout fired or after an earlier  *)
(* terminal message) invokes no host callback.                             *)
C25_IdleIgnoresTerminalMessages ==
    (Ran("message") /\ IsTerminalMessage(LastRun[1].arg) /\ ~before.visible)
        => Only(LastRun, "cb") = <<>>

(* C28: the overlay's (opacity, z-index) pair is always (0, -1000) or      *)
(* (1, 100000), and it is (0, -1000) until the first handler runs.         *)
C28_OverlayPairIsHiddenOrShown ==
    /\ <<containerOpacity, containerZIndex>>
          \in {<<OpacityHidden, ZIndexHidden>>, <<OpacityShown, ZIndexShown>>}
    /\ log = <<>>
          => <<containerOpacity, containerZIndex>>
                = <<OpacityHidden, ZIndexHidden>>

C28_Witness ==
    /\ Ran("message")
    /\ before.visible
    /\ containerOpacity = OpacityHidden
    /\ containerZIndex = ZIndexHidden

(* The host called open() from inside a callback of the last handler.      *)
Retried ==
    \E i \in DOMAIN LastRun : LastRun[i] = E("event", "open", "retry")

(* C26: when a terminal callback is invoked the close side effects (hide,  *)
(* reset) are already done, so that an open() issued from inside the       *)
(* callback leaves the overlay shown, execute as the last instruction sent *)
(* to the widget and exactly one timeout pending (stated here for runs     *)
(* whose messages carry one key each).                                     *)
C26_RetryInsideCallbackStaysOpen ==
    (Retried /\ SingleKeyMessagesOnly) =>
        LET injects == Only(LastRun, "inject")
        IN  /\ \A k \in DOMAIN LastRun :
                  IsTerminalCb(LastRun[k])
                      => /\ \E i \in 1..(k - 1) :
                                LastRun[i] = E("signal", "hide", "")
                         /\ \E i \in 1..(k - 1) :
                                LastRun[i] = E("inject", "reset", "")
            /\ Visible
            /\ injects # <<>>
            /\ injects[Len(injects)] = E("inject", "execute", "")
            /\ Cardinality(Armed) = 1

(* The render whose callback props were current when log entry k was made. *)
RenderAt(k) ==
    FirstRender
        + Cardinality({j \in 1..(k - 1) : IsEvent(log[j], "render")})

(* C27: after the host renders again with new callback props, every        *)
(* callback invoked, on the message path as on the timer and close()       *)
(* paths, is the one of the current props.                                 *)
C27_CallbacksAreCurrent ==
    \A k \in DOMAIN log :
        log[k].kind = "closure" => log[k].arg = ToString(RenderAt(k))

====
